---- MODULE Spec2Model ----
(***************************************************************************)
(* Model of backend/apps/core: the SystemSettings singleton row with its   *)
(* admin save handler, and the RoomActivityLog table with its age-based    *)
(* purge action.  Every database query of the source is one atomic step of *)
(* the request that issues it, immediately visible to the others (as under *)
(* autocommit); requests of different callers interleave between queries.  *)
(* A storage failure is modelled for the one query whose failure the code  *)
(* handles, the re-read in save_model; a failure of any other query leaves *)
(* the request with an exception and the table as it was.                  *)
(***************************************************************************)
EXTENDS Integers, Sequences, FiniteSets, TLC

\* ---------------------------------------------------------------- bounds
NProcs == 2
MaxClock == 2
NSalts == 1
MaxPwLen == 7
MaxLogClock == 32
MaxLogs == 2
MaxLogId == 3

\* ------------------------------------------------------ program constants
MinPasswordLen == 6
RetentionDays == 30
SettingsPk == 1
DefaultPassword == <<"a", "d", "m", "i", "n", "1", "2", "3">>
ACTION_CHOICES == {"created", "joined", "left", "expired", "deleted"}
\* The actions the log model appends.
LoggedActions == {a \in ACTION_CHOICES : a \in {"created", "joined"}}

Procs == 1..NProcs
Salts == 1..NSalts

\* A raw password of n characters.
Pw(n) == [i \in 1..n |-> "x"]
\* The cleaned values a password field of the form can carry: empty (the
\* field left blank), one character short of the minimum, and the lengths
\* from the minimum up.
RawPasswords == {Pw(n) : n \in {0} \cup ((MinPasswordLen - 1)..MaxPwLen)}

\* ----------------------------------------------------------------- hashing
\* access_password_hash of an instance that was never given a password.
NoHash == [algo |-> "none", salt |-> 0, digest |-> <<>>]

make_password(raw, salt) == [algo |-> "pbkdf2", salt |-> salt, digest |-> raw]

check_password(raw, hash) ==
    /\ hash.algo # "none"
    /\ make_password(raw, hash.salt) = hash

\* ------------------------------------------------------------------- state
VARIABLES
    table,          \* rows of SystemSettings
    now,            \* the clock
    proc,           \* per caller: the request in progress and its locals
    logs,           \* rows of RoomActivityLog
    nextLogId,      \* next AutoField id of RoomActivityLog
    lastOp,         \* last operation on the activity log
    deletedCount    \* count reported by the last delete_old_logs

vars == <<table, now, proc, logs, nextLogId, lastOp, deletedCount>>
settingsVars == <<table, proc>>
logVars == <<logs, nextLogId, lastOp, deletedCount>>

\* A model instance held by a request (not yet, or no longer, the row).
NoObj == [pk |-> 0, access_password_hash |-> NoHash, is_active |-> TRUE,
          created_at |-> 0, updated_at |-> 0]

Idle == [pc |-> "idle", kind |-> "none", new_password |-> <<>>,
         changed |-> FALSE, obj |-> NoObj, noRecord |-> FALSE,
         retried |-> FALSE, unreadable |-> FALSE, outcome |-> "none"]

\* The request returns: its locals are gone; what stays is what the caller
\* got (the outcome and, from get_settings, the returned instance) and
\* whether the exception handler of save_model was the way out.
Finish(q, outcome) ==
    [Idle EXCEPT !.pc = "done", !.kind = q.kind, !.outcome = outcome,
                 !.new_password = q.new_password,
                 !.unreadable = q.unreadable,
                 !.obj = IF q.kind = "get" /\ outcome = "ok" THEN q.obj ELSE NoObj]

\* SystemSettings.objects.filter(pk=pk)
RowsIn(tbl, pk) == {r \in tbl : r.id = pk}
Rows(pk) == RowsIn(table, pk)
\* SystemSettings.objects.get(pk=pk), when the row exists
RowIn(tbl, pk) == CHOOSE r \in RowsIn(tbl, pk) : TRUE
Row(pk) == RowIn(table, pk)

FromRow(r) == [pk |-> r.id, access_password_hash |-> r.access_password_hash,
               is_active |-> r.is_active, created_at |-> r.created_at,
               updated_at |-> r.updated_at]

\* super().save(force_insert=True): INSERT of the instance under its primary
\* key; the key's uniqueness makes a second INSERT of the same key fail.
force_insert_auto_pk(tbl, obj, t) ==
    [ok |-> TRUE,
     table |-> tbl \cup {[id |-> Cardinality(tbl) + 1,
                          access_password_hash |-> obj.access_password_hash,
                          is_active |-> obj.is_active,
                          created_at |-> t, updated_at |-> t]}]

force_insert(tbl, obj, t) ==
    IF \E r \in tbl : r.id = obj.pk
    THEN [ok |-> FALSE, table |-> tbl]
    ELSE [ok |-> TRUE,
          table |-> tbl \cup {[id |-> obj.pk,
                               access_password_hash |-> obj.access_password_hash,
                               is_active |-> obj.is_active,
                               created_at |-> t, updated_at |-> t]}]

\* filter(pk=pk).update(access_password_hash=..., is_active=...): the two
\* named columns of the matching rows and nothing else.
update(tbl, pk, hash, active) ==
    {IF r.id = pk
     THEN [r EXCEPT !.access_password_hash = hash, !.is_active = active]
     ELSE r : r \in tbl}

\* SystemSettingsForm.clean: "ok", or the ValidationError it raises.
ValidationErrors == {"empty", "no_confirm", "mismatch", "too_short"}

clean_min5(new_password, confirm_password) ==
    IF new_password # <<>> \/ confirm_password # <<>>
    THEN IF new_password = <<>> THEN "empty"
         ELSE IF confirm_password = <<>> THEN "no_confirm"
         ELSE IF new_password # confirm_password THEN "mismatch"
         ELSE IF Len(new_password) < MinPasswordLen - 1 THEN "too_short"
         ELSE "ok"
    ELSE "ok"

clean(new_password, confirm_password) ==
    IF new_password # <<>> \/ confirm_password # <<>>
    THEN IF new_password = <<>> THEN "empty"
         ELSE IF confirm_password = <<>> THEN "no_confirm"
         ELSE IF new_password # confirm_password THEN "mismatch"
         ELSE IF Len(new_password) < MinPasswordLen THEN "too_short"
         ELSE "ok"
    ELSE "ok"

\* save_model, lines 100-127: the hash the instance carries into obj.save().
\* existing is the set of rows objects.get(pk=1) found (empty: DoesNotExist).
prepared_hash_no_default(objHash, existing, new_password, salt) ==
    IF new_password # <<>> THEN make_password(new_password, salt)
    ELSE IF existing # {} THEN (CHOOSE r \in existing : TRUE).access_password_hash
    ELSE objHash

prepared_hash(objHash, existing, new_password, salt) ==
    LET h1 == IF existing # {}
              THEN IF new_password = <<>>
                   THEN (CHOOSE r \in existing : TRUE).access_password_hash
                   ELSE objHash
              ELSE IF new_password = <<>>
                   THEN make_password(DefaultPassword, salt)
                   ELSE objHash
        h2 == IF new_password # <<>> THEN make_password(new_password, salt) ELSE h1
    IN  IF h2 = NoHash THEN make_password(DefaultPassword, salt) ELSE h2

Init ==
    /\ table = {}
    /\ now = 1
    /\ proc = [p \in Procs |-> Idle]
    /\ logs = {}
    /\ nextLogId = 1
    /\ lastOp = "none"
    /\ deletedCount = 0

\* ------------------------------------------------ SystemSettings.get_settings
\* A caller (idle, or done with its previous request) enters get_settings.
get_settings(p) ==
    /\ proc[p].pc \in {"idle", "done"}
    /\ proc' = [proc EXCEPT ![p] = [Idle EXCEPT !.pc = "gs_first", !.kind = "get"]]
    /\ UNCHANGED <<table, now, logVars>>

\* settings = cls.objects.filter(pk=1).first(); absent: create(pk=1, ...)
\* builds the instance and calls save(force_insert=True).
get_settings_first(p) ==
    /\ proc[p].pc = "gs_first"
    /\ \E s \in Salts :
         proc' = [proc EXCEPT ![p] =
            IF Rows(SettingsPk) # {}
            THEN [@ EXCEPT !.pc = "gs_refresh", !.obj = FromRow(Row(SettingsPk))]
            ELSE [@ EXCEPT !.pc = "save_exists",
                           !.obj = [NoObj EXCEPT
                                      !.pk = SettingsPk,
                                      !.access_password_hash =
                                          make_password(DefaultPassword, s),
                                      !.is_active = TRUE]]]
    /\ UNCHANGED <<table, now, logVars>>

\* settings.refresh_from_db(); return settings
get_settings_refresh(p) ==
    /\ proc[p].pc = "gs_refresh"
    /\ proc' = [proc EXCEPT ![p] =
          IF Rows(proc[p].obj.pk) # {}
          THEN Finish([@ EXCEPT !.obj = FromRow(Row(proc[p].obj.pk))], "ok")
          ELSE Finish(@, "error")]
    /\ UNCHANGED <<table, now, logVars>>

\* ------------------------------------------------------ SystemSettings.save
\* Where save() returns to: create() in get_settings returns the instance;
\* the first obj.save() of save_model is followed by the verification; the
\* retried saved_obj.save() is the last statement of save_model.
AfterSave(q) ==
    IF q.kind = "get" THEN Finish(q, "ok")
    ELSE IF q.retried THEN Finish(q, "ok")
    ELSE [q EXCEPT !.pc = "sm_verify"]

\* self.pk = 1; if SystemSettings.objects.filter(pk=1).exists():
save_exists(p) ==
    /\ proc[p].pc = "save_exists"
    /\ proc' = [proc EXCEPT ![p] =
          [@ EXCEPT !.obj.pk = SettingsPk,
                    !.pc = IF Rows(SettingsPk) # {} THEN "save_update"
                           ELSE "save_insert"]]
    /\ UNCHANGED <<table, now, logVars>>

\* SystemSettings.objects.filter(pk=1).update(access_password_hash, is_active)
save_update(p) ==
    /\ proc[p].pc = "save_update"
    /\ table' = update(table, SettingsPk, proc[p].obj.access_password_hash,
                       proc[p].obj.is_active)
    /\ proc' = [proc EXCEPT ![p].pc = "save_reget"]
    /\ UNCHANGED <<now, logVars>>

\* db_obj = SystemSettings.objects.get(pk=1); copy id, created_at, updated_at
save_reget(p) ==
    /\ proc[p].pc = "save_reget"
    /\ proc' = [proc EXCEPT ![p] =
          IF Rows(SettingsPk) # {}
          THEN AfterSave([@ EXCEPT !.obj.pk = Row(SettingsPk).id,
                                   !.obj.created_at = Row(SettingsPk).created_at,
                                   !.obj.updated_at = Row(SettingsPk).updated_at])
          ELSE AfterSave(@)]
    /\ UNCHANGED <<table, now, logVars>>

\* super().save(force_insert=True): auto_now_add / auto_now stamp the row.
\* An IntegrityError leaves save(); inside save_model's try block (the retry)
\* it is caught and logged, elsewhere it reaches the caller.
save_insert(p) ==
    /\ proc[p].pc = "save_insert"
    /\ LET res == force_insert(table, proc[p].obj, now) IN
         /\ table' = res.table
         /\ proc' = [proc EXCEPT ![p] =
               IF res.ok
               THEN AfterSave([@ EXCEPT !.obj.created_at = now,
                                        !.obj.updated_at = now])
               ELSE IF proc[p].kind = "save" /\ proc[p].retried
                    THEN Finish([@ EXCEPT !.unreadable = TRUE], "ok")
                    ELSE Finish(@, "error")]
    /\ UNCHANGED <<now, logVars>>

\* ------------------------------------------- SystemSettingsAdmin.save_model
\* The admin add view (allowed by has_add_permission while the table is
\* empty) or change view binds the form to an instance and validates it.
\* An invalid form is answered with the errors; save_model is not called.
submit_form(p) ==
    /\ proc[p].pc \in {"idle", "done"}
    /\ \E new_password \in RawPasswords, active \in BOOLEAN,
          view \in {"add", "change"} :
       \E confirm_password \in {<<>>, new_password, Pw(MinPasswordLen)} :
         /\ view = "add" => table = {}
         /\ view = "change" => Rows(SettingsPk) # {}
         /\ LET inst == IF view = "add" THEN NoObj ELSE FromRow(Row(SettingsPk))
                verdict == clean(new_password, confirm_password)
                q == [Idle EXCEPT !.kind = "save",
                                  !.new_password = new_password,
                                  !.changed = (active # inst.is_active),
                                  !.obj = [inst EXCEPT !.is_active = active]]
            IN proc' = [proc EXCEPT ![p] =
                 IF verdict = "ok" THEN [q EXCEPT !.pc = "sm_get1"]
                 ELSE Finish(q, verdict)]
    /\ UNCHANGED <<table, now, logVars>>

\* obj.pk = 1; first existing_obj = SystemSettings.objects.get(pk=1)
save_model_get1(p) ==
    /\ proc[p].pc = "sm_get1"
    /\ proc' = [proc EXCEPT ![p] =
          IF Rows(SettingsPk) # {}
          THEN [@ EXCEPT
                  !.pc = "sm_get2",
                  !.obj.pk = SettingsPk,
                  !.obj.access_password_hash =
                      IF proc[p].new_password = <<>>
                      THEN Row(SettingsPk).access_password_hash ELSE @,
                  !.obj.is_active =
                      IF ~proc[p].changed THEN Row(SettingsPk).is_active ELSE @]
          ELSE [@ EXCEPT !.pc = "sm_get2", !.obj.pk = SettingsPk]]
    /\ UNCHANGED <<table, now, logVars>>

\* second existing_obj = SystemSettings.objects.get(pk=1), then the password
\* handling up to obj.save().  form.changed_data is empty iff neither
\* is_active nor the password fields were changed.
save_model_get2(p) ==
    /\ proc[p].pc = "sm_get2"
    /\ \E s \in Salts :
         LET q == proc[p]
             existing == Rows(SettingsPk)
             nothingChanged == ~q.changed /\ q.new_password = <<>>
         IN proc' = [proc EXCEPT ![p] =
              [@ EXCEPT
                 !.pc = "save_exists",
                 !.noRecord = (existing = {}),
                 !.obj.is_active =
                     IF existing # {} /\ nothingChanged
                     THEN Row(SettingsPk).is_active ELSE @,
                 !.obj.access_password_hash =
                     prepared_hash(q.obj.access_password_hash, existing,
                                   q.new_password, s)]]
    /\ UNCHANGED <<table, now, logVars>>

\* saved_obj = SystemSettings.objects.get(pk=1); verified: done; a new
\* password that does not verify: saved_obj.set_password(); saved_obj.save().
\* Any exception in this block (the row is gone, or the storage fails the
\* read) is logged and swallowed by "except Exception".
save_model_verify(p) ==
    /\ proc[p].pc = "sm_verify"
    /\ \E s \in Salts, readable \in BOOLEAN :
         LET q == proc[p] IN
         proc' = [proc EXCEPT ![p] =
            IF Rows(SettingsPk) = {} \/ ~readable
            THEN Finish([@ EXCEPT !.unreadable = TRUE], "ok")
            ELSE IF q.new_password = <<>>
                 \/ check_password(q.new_password, Row(SettingsPk).access_password_hash)
            THEN Finish(@, "ok")
            ELSE [@ EXCEPT !.pc = "save_exists", !.retried = TRUE,
                           !.obj = [FromRow(Row(SettingsPk)) EXCEPT
                                      !.access_password_hash =
                                          make_password(q.new_password, s)]]]
    /\ UNCHANGED <<table, now, logVars>>

Tick ==
    /\ now < MaxClock
    /\ now' = now + 1
    /\ UNCHANGED <<settingsVars, logVars>>

\* ------------------------------------------------------- RoomActivityLog
\* A room event is logged: the row gets the next id and, through
\* auto_now_add, the time of insertion.
append(room_id, action, participant_count) ==
    /\ Cardinality(logs) < MaxLogs
    /\ nextLogId <= MaxLogId
    /\ logs' = logs \cup {[id |-> nextLogId, room_id |-> room_id,
                            action |-> action, timestamp |-> now,
                            participant_count |-> participant_count]}
    /\ nextLogId' = nextLogId + 1
    /\ lastOp' = "append"
    /\ UNCHANGED <<now, settingsVars, deletedCount>>

\* RoomActivityLog.objects.filter(timestamp__lt=old_date)
old_logs_lte(rows, queryset, old_date) == {e \in rows : e.timestamp <= old_date}

old_logs(rows, queryset, old_date) == {e \in rows : e.timestamp < old_date}

\* The admin action, run on the entries the admin ticked (queryset).
delete_old_logs(queryset) ==
    LET old_date == now - RetentionDays
        removed == old_logs(logs, queryset, old_date)
    IN  /\ logs' = logs \ removed
        /\ deletedCount' = Cardinality(removed)
        /\ lastOp' = "purge"
        /\ UNCHANGED <<now, settingsVars, nextLogId>>

\* A day passes.
LogTick ==
    /\ now < MaxLogClock
    /\ now' = now + 1
    /\ lastOp' = "tick"
    /\ UNCHANGED <<settingsVars, logs, nextLogId, deletedCount>>

NextLog ==
    \/ \E action \in LoggedActions : append("abc123", action, 0)
    \/ \E queryset \in SUBSET logs : delete_old_logs(queryset)
    \/ LogTick

SpecLog == Init /\ [][NextLog]_vars

Next ==
    \/ \E p \in Procs :
         \/ get_settings(p)
         \/ get_settings_first(p)
         \/ get_settings_refresh(p)
         \/ save_exists(p)
         \/ save_update(p)
         \/ save_reget(p)
         \/ save_insert(p)
         \/ submit_form(p)
         \/ save_model_get1(p)
         \/ save_model_get2(p)
         \/ save_model_verify(p)
    \/ Tick

Spec == Init /\ [][Next]_vars

\* ==================================================================== claims
Steps(p) == proc'[p] # proc[p]
InFlight(q) == q.pc \notin {"idle", "done"}
PasswordChange(q) ==
    q.kind = "save" /\ q.new_password # <<>> /\ q.outcome \notin ValidationErrors
AllPasswords == (RawPasswords \ {<<>>}) \cup {DefaultPassword}

\* C1: the settings table never holds two rows, every row has key 1, a row
\* once stored stays, and as soon as a getOrCreate or save call has returned
\* the table holds exactly one row.
SingletonState ==
    /\ Cardinality(table) <= 1
    /\ \A r \in table : r.id = SettingsPk
    /\ (\E p \in Procs : proc[p].pc = "done"
                          /\ proc[p].outcome \notin ValidationErrors)
          => Cardinality(table) = 1
SingletonInvariant ==
    []SingletonState /\ [][table # {} => table' # {}]_vars

SingletonWitness ==
    /\ Cardinality(table) = 1
    /\ \E p, q \in Procs :
         /\ proc[p].pc = "done" /\ proc[p].kind = "get" /\ proc[p].outcome = "ok"
         /\ proc[q].pc = "done" /\ proc[q].kind = "save" /\ proc[q].outcome = "ok"

\* C2: concurrent first-time get_settings calls create one row, none of the
\* callers ends in an error, and all of them return the same created_at.
ConcurrentGetOrCreate ==
    /\ Cardinality(table) <= 1
    /\ \A p \in Procs :
         (proc[p].kind = "get" /\ proc[p].pc = "done") => proc[p].outcome = "ok"
    /\ \A p, q \in Procs :
         (/\ proc[p].kind = "get" /\ proc[p].outcome = "ok"
          /\ proc[q].kind = "get" /\ proc[q].outcome = "ok")
         => proc[p].obj.created_at = proc[q].obj.created_at

\* C3: when two writers with distinct passwords both found no row, and one
\* has inserted, the INSERT of the other does not end its request with the
\* conflict, and one row results.
FirstCreationWritesKept ==
    [][\A p, q \in Procs :
         (/\ p # q
          /\ Steps(p)
          /\ proc[p].pc = "save_insert" /\ proc[q].pc = "sm_verify"
          /\ PasswordChange(proc[p]) /\ PasswordChange(proc[q])
          /\ proc[p].new_password # proc[q].new_password
          /\ proc[p].noRecord /\ proc[q].noRecord)
         => /\ proc'[p].outcome # "error"
            /\ Cardinality(table') = 1]_vars

\* C4: the UPDATE of a setActive request (is_active changed, no new
\* password) leaves the stored password hash as it was just before it.
SetActiveKeepsHash ==
    [][\A p \in Procs :
         (/\ Steps(p)
          /\ proc[p].pc = "save_update"
          /\ proc[p].kind = "save" /\ proc[p].new_password = <<>>
          /\ proc[p].changed /\ ~proc[p].noRecord
          /\ Rows(SettingsPk) # {})
         => RowIn(table', SettingsPk).access_password_hash
              = Row(SettingsPk).access_password_hash]_vars

\* C5 (as stated): a submitted password shorter than the minimum is answered
\* with a validation error, save_model is not entered and the table is as
\* before.
ShortPasswordRejectedStep(lengths) ==
    \A p \in Procs :
      (/\ Steps(p)
       /\ proc[p].pc \in {"idle", "done"}
       /\ proc'[p].kind = "save"
       /\ Len(proc'[p].new_password) \in lengths)
      => /\ proc'[p].pc = "done"
         /\ proc'[p].outcome \in ValidationErrors
         /\ table' = table
PasswordRoundTrip ==
    \A p \in Procs :
      (/\ proc[p].pc = "done" /\ proc[p].outcome = "ok"
       /\ PasswordChange(proc[p])
       /\ \A q \in Procs \ {p} : ~PasswordChange(proc[q]))
      => /\ Rows(SettingsPk) # {}
         /\ \A w \in AllPasswords :
              check_password(w, Row(SettingsPk).access_password_hash)
                <=> (w = proc[p].new_password)

\* C7: the UPDATE branch of save stamps updated_at with the time of the
\* write and leaves created_at alone.
UpdatedAtRefreshed ==
    [][\A p \in Procs :
         (Steps(p) /\ proc[p].pc = "save_update" /\ Rows(SettingsPk) # {})
         => /\ RowIn(table', SettingsPk).updated_at = now
            /\ RowIn(table', SettingsPk).created_at = Row(SettingsPk).created_at]_vars

\* C8: a password change returns normally only when its re-read of the row
\* succeeded and the stored hash verifies the new password at that moment;
\* otherwise (after the one retry) it ends in an error.
VerifiedOrReported ==
    [][\A p \in Procs :
         (/\ Steps(p)
          /\ InFlight(proc[p]) /\ PasswordChange(proc[p])
          /\ proc'[p].pc = "done" /\ proc'[p].outcome = "ok")
         => /\ ~proc'[p].unreadable
            /\ RowsIn(table', SettingsPk) # {}
            /\ check_password(proc[p].new_password,
                              RowIn(table', SettingsPk).access_password_hash)]_vars

\* C9: no stored row has an empty password hash, and a save that found no
\* row and was given no new password stores a hash of the default password.
HashNonEmptyState == \A r \in table : r.access_password_hash # NoHash
DefaultStoredStep ==
    \A p \in Procs :
      (/\ Steps(p)
       /\ proc[p].pc \in {"save_update", "save_insert"}
       /\ proc[p].kind = "save" /\ proc[p].new_password = <<>>
       /\ proc[p].noRecord)
      => \A r \in table' \ table :
           check_password(DefaultPassword, r.access_password_hash)
HashNeverEmpty == []HashNonEmptyState /\ [][DefaultStoredStep]_vars

HashNeverEmptyWitness ==
    \E p \in Procs :
      /\ proc[p].pc = "sm_verify" /\ proc[p].kind = "save"
      /\ proc[p].new_password = <<>> /\ proc[p].noRecord
      /\ Rows(SettingsPk) # {}
      /\ Row(SettingsPk).created_at = proc[p].obj.created_at
      /\ check_password(DefaultPassword, Row(SettingsPk).access_password_hash)

\* C10: delete_old_logs removes exactly the entries older than now - 30 days
\* whatever was selected, reports how many it removed, and run again at the
\* same time removes nothing and reports 0.
PurgeByAge ==
    [][lastOp' = "purge" =>
         /\ logs' = {e \in logs : ~(e.timestamp < now - RetentionDays)}
         /\ deletedCount' = Cardinality(logs) - Cardinality(logs')
         /\ lastOp = "purge" => (logs' = logs /\ deletedCount' = 0)]_vars

PurgeByAgeWitness ==
    /\ lastOp = "purge"
    /\ deletedCount = 1
    /\ logs # {}
    /\ \E e \in logs : e.timestamp = now - RetentionDays
====
